---- MODULE Spec2Model ----
(***************************************************************************)
(* A model of bot.py: the points ledger (users / orders tables of the      *)
(* SQLite database), the OkayPay client and the Telegram handlers that     *)
(* create payment orders, credit paid orders and spend points.             *)
(*                                                                         *)
(* Amounts are Decimal values in the source; here they are integers that   *)
(* count hundredths of a point (Decimal("1.5") is 150, Decimal("3") is     *)
(* 300, Decimal("10000") is 1000000).  All amounts of the model are exact  *)
(* in the Decimal context of the source.                                   *)
(*                                                                         *)
(* Every handler is a coroutine; it is modelled as a sequence of steps,    *)
(* one per database statement or gateway call, and the steps of different  *)
(* handlers interleave freely.  Each database function opens a connection  *)
(* of its own: a write transaction (BEGIN IMMEDIATE, or the implicit BEGIN *)
(* that precedes the first INSERT/UPDATE of a connection) holds SQLite's   *)
(* write lock until COMMIT/ROLLBACK, and its writes stay in the            *)
(* transaction's private view (txUsers, txOrders) until COMMIT.  A         *)
(* statement that needs the lock waits while another connection holds it.  *)
(***************************************************************************)
EXTENDS Integers, Sequences, FiniteSets, TLC

\* ------------------------------------------------------------------ bounds
\* Handlers that may be in flight at the same time.
NumTasks == 2
\* Updates (commands and button clicks) the bot receives in one behaviour.
MaxUpdates == 3

Tasks == 1..NumTasks
\* The unique_id values: an order takes one update to create.
OrderIds == 1..MaxUpdates
\* Telegram user ids.
Users == {1, 2}
\* user.username as Telegram reports it (None when unset): user 1 sets and
\* clears a username, user 2 never sets one.
None == "None"
Usernames(u) == IF u = 1 THEN {None, "neo"} ELSE {None}

\* -------------------------------------------------------------- constants
\* COST, in hundredths of a point.
COST == [ddz |-> 150, dt |-> 180, zdz_2 |-> 450, jdz |-> 180]
Commands == DOMAIN COST
\* Decimal("3") and Decimal("10000"), in hundredths.
MinAmount == 300
MaxAmount == 1000000

NoRow == [absent |-> TRUE]
\* No call of a client function is under study.
NoCall == [fn |-> "none"]

VARIABLES
    users,      \* committed users table: user_id -> [username, points] or NoRow
    orders,     \* committed orders table: unique_id -> order row or NoRow
    txUsers,    \* the users table as the open write transaction sees it
    txOrders,   \* the orders table as the open write transaction sees it
    lock,       \* the task holding SQLite's write lock, 0 when it is free
    task,       \* task -> the handler it runs, its position and its locals
    updates,    \* number of updates received so far
    debited,    \* history: user_id -> total of the deductions that returned True
    call        \* the call of a function of the gateway client under study

vars == <<users, orders, txUsers, txOrders, lock, task, updates, debited, call>>
db == <<users, orders, txUsers, txOrders, lock>>

\* A task that runs no handler; also the initial value of a handler's locals.
Idle ==
    [pc |-> "idle", h |-> "none", user |-> 0, name |-> "", amount |-> 0,
     oid |-> 0, row |-> NoRow, current |-> 0, gw |-> FALSE, raised |-> FALSE,
     auth |-> FALSE, ok |-> FALSE, order_id |-> "", pay_url |-> "", out |-> "none"]

Init ==
    /\ users = [u \in Users |-> NoRow]
    /\ orders = [o \in OrderIds |-> NoRow]
    /\ txUsers = users
    /\ txOrders = orders
    /\ lock = 0
    /\ task = [t \in Tasks |-> Idle]
    /\ updates = 0
    /\ debited = [u \in Users |-> 0]
    /\ call = NoCall

\* t moves to position pc with the given changes of its locals.
Goto(t, rec) == task' = [task EXCEPT ![t] = rec]
\* The handler is about to send the reply out (or, for "none", no reply) and
\* return; its locals are those it returns with.
Reply(loc, out) ==
    [Idle EXCEPT !.pc = "reply", !.out = out, !.h = loc.h, !.oid = loc.oid,
                 !.amount = loc.amount, !.gw = loc.gw, !.raised = loc.raised,
                 !.auth = loc.auth, !.ok = loc.ok]

\* ------------------------------------------------------------ transactions
\* The connection of t takes the write lock; its view starts as the committed
\* tables.
Begin(t) ==
    /\ lock = 0
    /\ lock' = t
\* db.commit(): the transaction's view becomes the committed tables.
Commit(t) ==
    /\ lock = t
    /\ users' = txUsers
    /\ orders' = txOrders
    /\ lock' = 0
    /\ UNCHANGED <<txUsers, txOrders>>
\* ROLLBACK: the transaction's writes are dropped.
Rollback(t) ==
    /\ lock = t
    /\ txUsers' = users
    /\ txOrders' = orders
    /\ lock' = 0
    /\ UNCHANGED <<users, orders>>

\* ---------------------------------------------------------- Python values
\* A JSON value of a gateway response, tagged with its Python type.  A key a
\* dict does not hold is Absent.
Absent == [t |-> "absent", v |-> ""]
PyNone == [t |-> "none", v |-> ""]
JInt(n) == [t |-> "int", v |-> n]
JStr(s) == [t |-> "str", v |-> s]
JBool(b) == [t |-> "bool", v |-> b]
JDict(d) == [t |-> "dict", v |-> d]
\* A response body that is JSON but not an object.
NonDict == [t |-> "list", v |-> <<>>]

\* Python's truth value of v (the operands of `or`, bool(pay_url)).
Truthy(v) ==
    CASE v.t = "absent" -> FALSE
      [] v.t = "none" -> FALSE
      [] v.t = "int" -> v.v # 0
      [] v.t = "str" -> v.v # ""
      [] v.t = "bool" -> v.v
      [] v.t = "dict" -> \E k \in DOMAIN v.v : v.v[k] # Absent
      [] OTHER -> v.v # <<>>
\* a or b
Or(a, b) == IF Truthy(a) THEN a ELSE b
\* d.get(k): None for a key d does not hold.
Get(d, k) == IF d.v[k] = Absent THEN PyNone ELSE d.v[k]
\* d.get(k, default)
GetDefault(d, k, default) == IF d.v[k] = Absent THEN default ELSE d.v[k]

Digits == <<"0", "1", "2", "3", "4", "5", "6", "7", "8", "9">>
RECURSIVE IntStr(_)
IntStr(n) ==
    IF n < 0 THEN "-" \o IntStr(-n)
    ELSE IF n < Len(Digits) THEN Digits[n + 1]
    ELSE IntStr(n \div Len(Digits)) \o Digits[(n % Len(Digits)) + 1]
\* str(v)
PyStr(v) ==
    CASE v.t = "int" -> IntStr(v.v)
      [] v.t = "str" -> v.v
      [] v.t = "bool" -> IF v.v THEN "True" ELSE "False"
      [] v.t = "none" -> "None"
      [] v.t = "dict" -> "{}"
      [] OTHER -> "[]"
Upper == "ABCDEFGHIJKLMNOPQRSTUVWXYZ"
LowerLetters == "abcdefghijklmnopqrstuvwxyz"
LowerChar(c) ==
    IF \E i \in 1..Len(Upper) : SubSeq(Upper, i, i) = c
    THEN LET i == CHOOSE j \in 1..Len(Upper) : SubSeq(Upper, j, j) = c
         IN SubSeq(LowerLetters, i, i)
    ELSE c
\* s.lower()
RECURSIVE Lower(_)
Lower(s) ==
    IF Len(s) = 0 THEN ""
    ELSE LowerChar(SubSeq(s, 1, 1)) \o Lower(SubSeq(s, 2, Len(s)))
\* sub in s
Contains(sub, s) ==
    \E i \in 1..(Len(s) - Len(sub) + 1) : SubSeq(s, i, i + Len(sub) - 1) = sub
\* v in (10000, 0, 200): Python compares numbers by value, and a bool is the
\* number 0 or 1.
InOkCodes(v) ==
    CASE v.t = "int" -> v.v \in {10000, 0, 200}
      [] v.t = "bool" -> ~v.v
      [] OTHER -> FALSE

\* ------------------------------------------------------------ OkayPay client
\* The markers _is_auth_failed looks for, transliterated: "shenfenrenzhengshibai"
\* stands for the six characters of the first marker and "renzheng" for the two
\* of the second, which are the third and fourth characters of the first.
AuthFailedMarker == "shenfenrenzhengshibai"
AuthMarker == "renzheng"

\* The keys the client reads of a response and of its "data" object.
RespKeys == {"code", "status", "msg", "message", "data", "order_id", "orderId",
             "pay_url", "payUrl"}
DataKeys == {"status", "pay_status", "order_id", "orderId", "pay_url", "payUrl",
             "url", "link"}
\* A response object holding the given keys.
Resp(fields) ==
    JDict([k \in RespKeys |-> IF k \in DOMAIN fields THEN fields[k] ELSE Absent])
Data(fields) ==
    JDict([k \in DataKeys |-> IF k \in DOMAIN fields THEN fields[k] ELSE Absent])

\* _is_auth_failed
IsAuthFailed(resp) ==
    IF resp.t # "dict" THEN FALSE
    ELSE LET status == Lower(PyStr(GetDefault(resp, "status", JStr(""))))
             msg == PyStr(GetDefault(resp, "msg", JStr("")))
                      \o PyStr(GetDefault(resp, "message", JStr("")))
         IN \/ Contains(AuthFailedMarker, msg)
            \/ (status \in {"warning", "error"} /\ Contains(AuthMarker, msg))

\* The signing variants _post tries, in order.
Strategies ==
    << [keep_zero |-> FALSE, use_urldecode_plus |-> TRUE],
       [keep_zero |-> TRUE, use_urldecode_plus |-> TRUE],
       [keep_zero |-> FALSE, use_urldecode_plus |-> FALSE],
       [keep_zero |-> TRUE, use_urldecode_plus |-> FALSE] >>

\* What one request of _post yields: a parsed body, or an exception (of the
\* transport, of raise_for_status or of r.json()).
Exc == [t |-> "exception", v |-> ""]
NoResp == [t |-> "noresp", v |-> ""]
\* The loop of _post from strategy i on, last_resp being the last parsed body:
\* the first body that is not an authentication failure is returned; when the
\* strategies are used up, the last body if there is one, else RuntimeError.
RECURSIVE PostFrom(_, _, _)
PostFrom(i, last_resp, outcomes) ==
    IF i > Len(Strategies)
    THEN IF last_resp # NoResp
         THEN [raised |-> FALSE, resp |-> last_resp]
         ELSE [raised |-> TRUE, resp |-> NoResp]
    ELSE IF outcomes[i] = Exc
         THEN PostFrom(i + 1, last_resp, outcomes)
         ELSE IF IsAuthFailed(outcomes[i])
              THEN PostFrom(i + 1, outcomes[i], outcomes)
              ELSE [raised |-> FALSE, resp |-> outcomes[i]]
\* _post, outcomes[i] being what the request signed with Strategies[i] yields.
Post(outcomes) == PostFrom(1, NoResp, outcomes)

\* The top-level spellings tried before those of the data object.
ExtractPayResultTopFirst(resp) ==
    IF resp.t # "dict" THEN [success |-> FALSE, order_id |-> "", pay_url |-> ""]
    ELSE LET code == Get(resp, "code")
             status == Lower(PyStr(GetDefault(resp, "status", JStr(""))))
             data == IF Get(resp, "data").t = "dict" THEN Get(resp, "data")
                     ELSE Data(<<>>)
             order_id == Or(Get(resp, "order_id"), Or(Get(resp, "orderId"),
                         Or(Get(data, "order_id"), Or(Get(data, "orderId"),
                         JStr("")))))
             pay_url == Or(Get(resp, "pay_url"), Or(Get(resp, "payUrl"),
                        Or(Get(data, "pay_url"), Or(Get(data, "payUrl"),
                        Or(Get(data, "url"), Or(Get(data, "link"),
                        JStr("")))))))
             ok_code == InOkCodes(code)
             ok_status == status \in {"success", "ok", "1", "true"}
         IN [success |-> Truthy(pay_url) /\ (ok_code \/ ok_status),
             order_id |-> PyStr(order_id), pay_url |-> PyStr(pay_url)]
\* _extract_pay_result
ExtractPayResult(resp) ==
    IF resp.t # "dict" THEN [success |-> FALSE, order_id |-> "", pay_url |-> ""]
    ELSE LET code == Get(resp, "code")
             status == Lower(PyStr(GetDefault(resp, "status", JStr(""))))
             data == IF Get(resp, "data").t = "dict" THEN Get(resp, "data")
                     ELSE Data(<<>>)
             order_id == Or(Get(data, "order_id"), Or(Get(data, "orderId"),
                         Or(Get(resp, "order_id"), Or(Get(resp, "orderId"),
                         JStr("")))))
             pay_url == Or(Get(data, "pay_url"), Or(Get(data, "payUrl"),
                        Or(Get(data, "url"), Or(Get(data, "link"),
                        Or(Get(resp, "pay_url"), Or(Get(resp, "payUrl"),
                        JStr("")))))))
             ok_code == InOkCodes(code)
             ok_status == status \in {"success", "ok", "1", "true"}
         IN [success |-> Truthy(pay_url) /\ (ok_code \/ ok_status),
             order_id |-> PyStr(order_id), pay_url |-> PyStr(pay_url)]

\* _extract_paid_status
ExtractPaidStatus(resp) ==
    IF resp.t # "dict" THEN FALSE
    ELSE LET code == Get(resp, "code")
             status == Lower(PyStr(GetDefault(resp, "status", JStr(""))))
             data == IF Get(resp, "data").t = "dict" THEN Get(resp, "data")
                     ELSE Data(<<>>)
             pay_status == GetDefault(data, "status",
                                      GetDefault(data, "pay_status", JInt(0)))
             paid_flag == PyStr(pay_status) \in {"1", "true", "paid", "success"}
         IN \/ (InOkCodes(code) /\ paid_flag)
            \/ (status \in {"success", "ok"} /\ paid_flag)

\* ------------------------------------------------------- gateway behaviours
\* Bodies the gateway may answer payLink with.  The gateway is not part of the
\* program: any JSON may arrive.
PayResponses ==
    { Resp([code |-> JInt(10000),
            data |-> Data([order_id |-> JStr("g1"), pay_url |-> JStr("u1")])]),
      Resp([status |-> JStr("success"),
            data |-> Data([orderId |-> JStr("g1"), payUrl |-> JStr("u1")])]),
      Resp([code |-> JInt(10000), data |-> Data(<<>>)]),
      Resp([status |-> JStr("error"), msg |-> JStr("amount")]),
      Resp([status |-> JStr("error"), msg |-> JStr(AuthFailedMarker)]),
      Resp([code |-> JInt(0), msg |-> JStr(AuthFailedMarker),
            order_id |-> JStr("g1"), pay_url |-> JStr("u1")]),
      NonDict }
\* Bodies the gateway may answer checkDeposit with.
CheckResponses ==
    { Resp([code |-> JInt(10000), data |-> Data([status |-> JInt(1)])]),
      Resp([code |-> JInt(10000), data |-> Data([status |-> JInt(0)])]),
      Resp([status |-> JStr("error"), msg |-> JStr(AuthFailedMarker)]),
      Resp([code |-> JInt(0), message |-> JStr(AuthFailedMarker),
            data |-> Data([status |-> JInt(1)])]),
      NonDict }
\* Every result _post can have, over all the ways the requests of the four
\* strategies can end.
PostResults(responses) ==
    { Post(outcomes) :
        outcomes \in [1..Len(Strategies) -> responses \cup {Exc}] }
PayLinkResults == PostResults(PayResponses)
CheckDepositResults == PostResults(CheckResponses)

\* ------------------------------------------------------------------ inputs
\* context.args of a /cz message.
CzArgs ==
    { <<>>, <<"abc">>, <<"NaN">>, <<"2.99">>, <<"3">>, <<"10000">>,
      <<"10000.01">>, <<"3", "4">> }
\* Decimal(s) for the strings above: a number of hundredths, NaN, or
\* InvalidOperation.
DecimalOf(s) ==
    CASE s = "2.99" -> [kind |-> "num", v |-> 299]
      [] s = "3" -> [kind |-> "num", v |-> 300]
      [] s = "5" -> [kind |-> "num", v |-> 500]
      [] s = "10000" -> [kind |-> "num", v |-> 1000000]
      [] s = "10000.01" -> [kind |-> "num", v |-> 1000001]
      [] s = "NaN" -> [kind |-> "nan", v |-> 0]
      [] OTHER -> [kind |-> "invalid", v |-> 0]
\* Number of whitespace-separated parts of a paid command's message text.
TextParts == {1, 2, 3, 4}
\* parse_name_id_args, on the number of parts of text.strip().split()
ParseNameIdArgs(parts) == parts = 3
\* q.data of a button click.
ButtonData ==
    {[kind |-> k, id |-> 0] : k \in {"btn_ddz", "btn_dt", "btn_zdz", "btn_zdz2",
                                      "btn_jdz", "other"}}
    \cup {[kind |-> "checkpay", id |-> o] : o \in OrderIds}

\* What cz does with its arguments before it calls the gateway: the reply that
\* ends the handler ("" when it goes on) and the amount.
\* The lower bound taken as exclusive.
CzTooLowExclusive(amount) == amount <= MinAmount
CzTooLow(amount) == amount < MinAmount
CzTooHigh(amount) == amount > MaxAmount
CzValidate(args) ==
    IF Len(args) # 1 THEN [out |-> "usage", amount |-> 0]
    ELSE LET d == DecimalOf(args[1])
         IN CASE d.kind = "invalid" -> [out |-> "usage", amount |-> 0]
              [] d.kind = "nan" -> [out |-> "exception", amount |-> 0]
              [] CzTooLow(d.v) -> [out |-> "too_low", amount |-> d.v]
              [] CzTooHigh(d.v) -> [out |-> "too_high", amount |-> d.v]
              [] OTHER -> [out |-> "", amount |-> d.v]

\* ---------------------------------------------------------------- statements
\* A statement that writes runs in a write transaction: the connection holds
\* the write lock already, or takes it now (and waits while another holds it).
Acquire(t) == IF lock = t THEN UNCHANGED lock ELSE Begin(t)
\* user.username or ""
OrEmpty(name) == IF name = None THEN "" ELSE name
\* The points a SELECT of user_id's row yields in table: 0 when there is no row.
PointsIn(table, user_id) ==
    IF table[user_id] = NoRow THEN 0 ELSE table[user_id].points
\* UPDATE users SET points=? WHERE user_id=?: no row, no change.
SetPoints(table, user_id, points) ==
    IF table[user_id] = NoRow THEN table
    ELSE [table EXCEPT ![user_id].points = points]

\* ------------------------------------------------------------ update arrival
\* A free task takes the next update: the handler starts with fresh locals.
Free(t) == task[t].pc = "idle" /\ updates < MaxUpdates
Arrive(t, loc) ==
    /\ Free(t)
    /\ updates' = updates + 1
    /\ Goto(t, loc)
    /\ UNCHANGED <<db, debited, call>>

\* /start
StartCmd(t) ==
    \E u \in Users :
        Arrive(t, [Idle EXCEPT !.pc = "eu_insert", !.h = "start", !.user = u])
\* /info
InfoCmd(t) ==
    \E u \in Users :
        Arrive(t, [Idle EXCEPT !.pc = "eu_insert", !.h = "info", !.user = u])
\* /dt, /ddz, /zdz_2, /jdz: cmd_dt .. cmd_jdz call paid_command with their cmd.
\* What the update holds besides the user is drawn where the handler reads it.
PaidCmd(t) ==
    \E u \in Users :
        Arrive(t, [Idle EXCEPT !.pc = "eu_insert", !.h = "paid", !.user = u])
\* /cz
CzCmd(t) ==
    \E u \in Users :
        Arrive(t, [Idle EXCEPT !.pc = "eu_insert", !.h = "cz", !.user = u])
\* button_click: a menu button is answered with a hint; a checkpay button
\* starts handle_check_payment.
ButtonClick(t) ==
    \E u \in Users, data \in ButtonData :
        IF data.kind = "checkpay"
        THEN Arrive(t, [Idle EXCEPT !.pc = "cp_get", !.h = "check", !.user = u,
                                    !.oid = data.id])
        ELSE Arrive(t, Reply([Idle EXCEPT !.h = "button", !.user = u],
                             IF data.kind = "other" THEN "none" ELSE "hint"))

\* unique_id is built from the user id, the clock and a uuid: an id no order
\* and no handler in flight has.  Ids are opaque, so the least such id stands
\* for it.
Unused(o) ==
    /\ orders[o] = NoRow
    /\ txOrders[o] = NoRow
    /\ \A t \in Tasks : task[t].oid # o
FreshId == CHOOSE o \in OrderIds : Unused(o) /\ \A p \in 1..(o - 1) : ~Unused(p)

\* ----------------------------------------------------------------- ensure_user
\* INSERT OR REPLACE: the row is written anew, an existing one included.
EuInsertReplace(t) ==
    LET loc == task[t] IN
    /\ loc.pc = "eu_insert"
    /\ Acquire(t)
    /\ \E name \in Usernames(loc.user) :
        /\ txUsers' = [users EXCEPT ![loc.user] =
                          [username |-> OrEmpty(name), points |-> 0]]
        /\ Goto(t, [loc EXCEPT !.pc = "eu_update", !.name = name])
    /\ UNCHANGED <<users, orders, txOrders, updates, debited, call>>
\* INSERT OR IGNORE INTO users ... VALUES(?, ?, ?, '0', ?)
EuInsert(t) ==
    LET loc == task[t] IN
    /\ loc.pc = "eu_insert"
    /\ Acquire(t)
    /\ \E name \in Usernames(loc.user) :
        /\ txUsers' = IF users[loc.user] = NoRow
                      THEN [users EXCEPT ![loc.user] =
                                [username |-> OrEmpty(name), points |-> 0]]
                      ELSE users
        /\ Goto(t, [loc EXCEPT !.pc = "eu_update", !.name = name])
    /\ UNCHANGED <<users, orders, txOrders, updates, debited, call>>
\* UPDATE users SET username=?, full_name=? WHERE user_id=?
EuUpdate(t) ==
    LET loc == task[t] IN
    /\ loc.pc = "eu_update"
    /\ Acquire(t)
    /\ txUsers' = IF txUsers[loc.user] = NoRow THEN txUsers
                  ELSE [txUsers EXCEPT ![loc.user].username = OrEmpty(loc.name)]
    /\ Goto(t, [loc EXCEPT !.pc = "eu_commit", !.name = ""])
    /\ UNCHANGED <<users, orders, txOrders, updates, debited, call>>
\* paid_command after ensure_user: the check of the message text, then
\* need = COST[cmd]
PaidParse(loc, cmd, parts) ==
    IF ~ParseNameIdArgs(parts) THEN Reply(loc, "format_error")
    ELSE [loc EXCEPT !.pc = "dp_begin", !.amount = COST[cmd]]
\* cz after ensure_user: the checks of context.args, then the unique_id
CzParse(loc, args) ==
    IF CzValidate(args).out # ""
    THEN Reply([loc EXCEPT !.amount = CzValidate(args).amount],
               CzValidate(args).out)
    ELSE [loc EXCEPT !.pc = "cz_paylink", !.amount = CzValidate(args).amount,
                     !.oid = FreshId]
\* Where the handler can go when ensure_user has returned.
AfterEnsureUser(loc) ==
    CASE loc.h = "start" -> {Reply(loc, "start_text")}
      [] loc.h = "info" -> {[loc EXCEPT !.pc = "gp_select"]}
      [] loc.h = "paid" ->
            {PaidParse(loc, cmd, parts) : cmd \in Commands, parts \in TextParts}
      [] OTHER -> {CzParse(loc, args) : args \in CzArgs}
\* The handler going on without the commit of ensure_user.
EuCommitDropped(t) ==
    LET loc == task[t] IN
    /\ loc.pc = "eu_commit"
    /\ Rollback(t)
    /\ \E next \in AfterEnsureUser(loc) : Goto(t, next)
    /\ UNCHANGED <<updates, debited, call>>
\* db.commit() of ensure_user
EuCommit(t) ==
    LET loc == task[t] IN
    /\ loc.pc = "eu_commit"
    /\ Commit(t)
    /\ \E next \in AfterEnsureUser(loc) : Goto(t, next)
    /\ UNCHANGED <<updates, debited, call>>

\* ------------------------------------------------------------------------ info
\* get_points, then the reply with the points read.
GpSelect(t) ==
    LET loc == task[t] IN
    /\ loc.pc = "gp_select"
    /\ Goto(t, [Reply(loc, "info") EXCEPT !.current = PointsIn(users, loc.user)])
    /\ UNCHANGED <<db, updates, debited, call>>

\* ------------------------------------------------------ deduct_points_if_enough
\* The balance read and tested before the transaction is begun.
DpBeginAfterRead(t) ==
    LET loc == task[t]
        current == PointsIn(users, loc.user)
    IN
    /\ loc.pc = "dp_begin"
    /\ Goto(t, IF current < loc.amount THEN Reply(loc, "insufficient")
               ELSE [loc EXCEPT !.current = current, !.pc = "dp_update"])
    /\ UNCHANGED <<db, updates, debited, call>>
\* BEGIN IMMEDIATE
DpBegin(t) ==
    LET loc == task[t] IN
    /\ loc.pc = "dp_begin"
    /\ Begin(t)
    /\ Goto(t, [loc EXCEPT !.pc = "dp_select"])
    /\ UNCHANGED <<users, orders, txUsers, txOrders, updates, debited, call>>
\* The test with its operands swapped.
InsufficientSwapped(current, amount) == amount < current
\* current < amount
Insufficient(current, amount) == current < amount
\* SELECT points FROM users WHERE user_id=?, and the test of the balance
DpSelect(t) ==
    LET loc == task[t]
        current == PointsIn(txUsers, loc.user)
    IN
    /\ loc.pc = "dp_select"
    /\ lock = t
    /\ Goto(t, [loc EXCEPT !.current = current,
                           !.pc = IF Insufficient(current, loc.amount)
                                  THEN "dp_rollback" ELSE "dp_update"])
    /\ UNCHANGED <<db, updates, debited, call>>
\* ROLLBACK; return False: paid_command replies INSUFFICIENT_TEXT
DpRollback(t) ==
    LET loc == task[t] IN
    /\ loc.pc = "dp_rollback"
    /\ Rollback(t)
    /\ Goto(t, Reply(loc, "insufficient"))
    /\ UNCHANGED <<updates, debited, call>>
\* UPDATE users SET points=? WHERE user_id=?  with  current - amount
DpUpdate(t) ==
    LET loc == task[t] IN
    /\ loc.pc = "dp_update"
    /\ Acquire(t)
    /\ txUsers' = SetPoints(IF lock = t THEN txUsers ELSE users, loc.user,
                            loc.current - loc.amount)
    /\ Goto(t, [loc EXCEPT !.pc = "dp_commit"])
    /\ UNCHANGED <<users, orders, txOrders, updates, debited, call>>
\* db.commit(); return True: paid_command replies MAINTAIN_TEXT
DpCommit(t) ==
    LET loc == task[t] IN
    /\ loc.pc = "dp_commit"
    /\ Commit(t)
    /\ Goto(t, Reply([loc EXCEPT !.ok = TRUE], "maintain"))
    /\ debited' = [debited EXCEPT ![loc.user] = @ + loc.amount]
    /\ UNCHANGED <<updates, call>>

\* -------------------------------------------------------------------------- cz
\* okpay.pay_link and _extract_pay_result: the gateway call, and what cz makes
\* of its result.
CzPayLink(t) ==
    LET loc == task[t] IN
    /\ loc.pc = "cz_paylink"
    /\ \E r \in PayLinkResults :
        LET called == [loc EXCEPT !.gw = TRUE, !.raised = r.raised,
                                  !.auth = IsAuthFailed(r.resp),
                                  !.ok = ExtractPayResult(r.resp).success]
        IN Goto(t, IF r.raised THEN Reply(called, "create_failed")
                   ELSE IF ~ExtractPayResult(r.resp).success
                   THEN Reply(called, "create_failed_resp")
                   ELSE [called EXCEPT
                            !.pc = "co_insert",
                            !.order_id = ExtractPayResult(r.resp).order_id,
                            !.pay_url = ExtractPayResult(r.resp).pay_url])
    /\ UNCHANGED <<db, updates, debited, call>>
\* The row create_order inserts: status 0 (unpaid), credited 0.
NewOrder(user_id, amount, order_id, pay_url) ==
    [user_id |-> user_id, amount |-> amount, coin |-> "USDT",
     order_id |-> order_id, pay_url |-> pay_url, status |-> 0, credited |-> 0,
     paid_at |-> "NULL"]
\* create_order: INSERT INTO orders ...
CoInsert(t) ==
    LET loc == task[t] IN
    /\ loc.pc = "co_insert"
    /\ Acquire(t)
    /\ txOrders' = [orders EXCEPT ![loc.oid] =
                        NewOrder(loc.user, loc.amount, loc.order_id, loc.pay_url)]
    /\ Goto(t, [loc EXCEPT !.pc = "co_commit"])
    /\ UNCHANGED <<users, orders, txUsers, updates, debited, call>>
\* db.commit() of create_order, then the reply with the pay button
CoCommit(t) ==
    LET loc == task[t] IN
    /\ loc.pc = "co_commit"
    /\ Commit(t)
    /\ Goto(t, Reply(loc, "order_created"))
    /\ UNCHANGED <<updates, debited, call>>

\* -------------------------------------------------------- handle_check_payment
\* The checks with the test of credited before the test of the owner.
CheckRowCreditedFirst(row, from_user) ==
    IF row = NoRow THEN "not_found"
    ELSE IF row.credited = 1 THEN "already_credited"
    ELSE IF from_user # row.user_id THEN "not_yours"
    ELSE ""
\* The checks without the test of credited.
CheckRowNoCredited(row, from_user) ==
    IF row = NoRow THEN "not_found"
    ELSE IF from_user # row.user_id THEN "not_yours"
    ELSE ""
\* The checks of handle_check_payment on the row get_order read, in the code's
\* order: the reply that ends the handler, "" when it goes on to the gateway.
CheckRow(row, from_user) ==
    IF row = NoRow THEN "not_found"
    ELSE IF from_user # row.user_id THEN "not_yours"
    ELSE IF row.credited = 1 THEN "already_credited"
    ELSE ""
\* get_order (a read of the committed table) and the checks on its row
CpGetOrder(t) ==
    LET loc == task[t]
        row == orders[loc.oid]
        got == [loc EXCEPT !.row = row]
    IN
    /\ loc.pc = "cp_get"
    /\ Goto(t, IF CheckRow(row, loc.user) # ""
               THEN Reply(got, CheckRow(row, loc.user))
               ELSE [got EXCEPT !.pc = "cp_check"])
    /\ UNCHANGED <<db, updates, debited, call>>
\* The credit attempted whenever check_deposit returned, paid or not.
CpCheckDepositAnyResponse(t) ==
    LET loc == task[t] IN
    /\ loc.pc = "cp_check"
    /\ \E r \in CheckDepositResults :
        LET called == [loc EXCEPT !.gw = TRUE, !.raised = r.raised,
                                  !.auth = IsAuthFailed(r.resp),
                                  !.ok = ExtractPaidStatus(r.resp)]
        IN Goto(t, IF r.raised THEN Reply(called, "query_failed")
                   ELSE [called EXCEPT !.pc = "mc_begin"])
    /\ UNCHANGED <<db, updates, debited, call>>
\* okpay.check_deposit and _extract_paid_status
CpCheckDeposit(t) ==
    LET loc == task[t] IN
    /\ loc.pc = "cp_check"
    /\ \E r \in CheckDepositResults :
        LET called == [loc EXCEPT !.gw = TRUE, !.raised = r.raised,
                                  !.auth = IsAuthFailed(r.resp),
                                  !.ok = ExtractPaidStatus(r.resp)]
        IN Goto(t, IF r.raised THEN Reply(called, "query_failed")
                   ELSE IF ExtractPaidStatus(r.resp)
                   THEN [called EXCEPT !.pc = "mc_begin"]
                   ELSE Reply(called, "not_paid"))
    /\ UNCHANGED <<db, updates, debited, call>>

\* --------------------------------------------------- mark_order_paid_and_credit
\* BEGIN IMMEDIATE
McBegin(t) ==
    LET loc == task[t] IN
    /\ loc.pc = "mc_begin"
    /\ Begin(t)
    /\ Goto(t, [loc EXCEPT !.pc = "mc_select"])
    /\ UNCHANGED <<users, orders, txUsers, txOrders, updates, debited, call>>
\* The transaction without its own test of credited.
CreditBranchNoRecheck(row) ==
    IF row = NoRow THEN "mc_rollback" ELSE "mc_update_order"
\* What mark_order_paid_and_credit does with the row it read in its
\* transaction.
CreditBranch(row) ==
    IF row = NoRow THEN "mc_rollback"
    ELSE IF row.credited = 1 THEN "mc_rollback"
    ELSE "mc_update_order"
\* SELECT user_id, amount, status, credited FROM orders WHERE unique_id=?
McSelect(t) ==
    LET loc == task[t]
        row == txOrders[loc.oid]
    IN
    /\ loc.pc = "mc_select"
    /\ lock = t
    /\ Goto(t, [loc EXCEPT !.row = row, !.pc = CreditBranch(row)])
    /\ UNCHANGED <<db, updates, debited, call>>
\* The reply of handle_check_payment to what mark_order_paid_and_credit
\* returns without a write: (False, "no such order") is answered "credit
\* failed", (True, "already credited") with that text.
NoCreditReply(row) ==
    IF row = NoRow THEN "credit_failed" ELSE "already_credited_tx"
\* ROLLBACK; return
McRollback(t) ==
    LET loc == task[t] IN
    /\ loc.pc = "mc_rollback"
    /\ Rollback(t)
    /\ Goto(t, Reply(loc, NoCreditReply(loc.row)))
    /\ UNCHANGED <<updates, debited, call>>
\* The UPDATE setting credited and paid_at only.
PaidOrderNoStatus(row) == [row EXCEPT !.credited = 1, !.paid_at = "now"]
\* The UPDATE also clearing the pay link of the paid order.
PaidOrderClearsUrl(row) ==
    [row EXCEPT !.status = 1, !.credited = 1, !.paid_at = "now", !.pay_url = ""]
\* The order row after UPDATE orders SET status=1, credited=1, paid_at=?
PaidOrder(row) == [row EXCEPT !.status = 1, !.credited = 1, !.paid_at = "now"]
\* The UPDATE of the order committed on its own, before the balance is read.
McUpdateOrderCommitted(t) ==
    LET loc == task[t] IN
    /\ loc.pc = "mc_update_order"
    /\ lock = t
    /\ txOrders' = [txOrders EXCEPT ![loc.oid] = PaidOrder(@)]
    /\ orders' = txOrders'
    /\ users' = txUsers
    /\ lock' = 0
    /\ Goto(t, [loc EXCEPT !.pc = "mc_select_points"])
    /\ UNCHANGED <<txUsers, updates, debited, call>>
\* UPDATE orders SET status=1, credited=1, paid_at=? WHERE unique_id=?
McUpdateOrder(t) ==
    LET loc == task[t] IN
    /\ loc.pc = "mc_update_order"
    /\ Acquire(t)
    /\ txOrders' = [txOrders EXCEPT ![loc.oid] = PaidOrder(@)]
    /\ Goto(t, [loc EXCEPT !.pc = "mc_select_points"])
    /\ UNCHANGED <<users, orders, txUsers, updates, debited, call>>
\* SELECT points FROM users WHERE user_id=?
McSelectPoints(t) ==
    LET loc == task[t] IN
    /\ loc.pc = "mc_select_points"
    /\ lock = t
    /\ Goto(t, [loc EXCEPT !.current = PointsIn(txUsers, loc.row.user_id),
                           !.pc = "mc_update_user"])
    /\ UNCHANGED <<db, updates, debited, call>>
\* The balance set to the amount of the order instead of raised by it.
McUpdateUserOverwrite(t) ==
    LET loc == task[t] IN
    /\ loc.pc = "mc_update_user"
    /\ Acquire(t)
    /\ txUsers' = SetPoints(txUsers, loc.row.user_id, loc.row.amount)
    /\ Goto(t, [loc EXCEPT !.pc = "mc_commit"])
    /\ UNCHANGED <<users, orders, txOrders, updates, debited, call>>
\* UPDATE users SET points=? WHERE user_id=?  with  current + amount
McUpdateUser(t) ==
    LET loc == task[t] IN
    /\ loc.pc = "mc_update_user"
    /\ Acquire(t)
    /\ txUsers' = SetPoints(txUsers, loc.row.user_id,
                            loc.current + loc.row.amount)
    /\ Goto(t, [loc EXCEPT !.pc = "mc_commit"])
    /\ UNCHANGED <<users, orders, txOrders, updates, debited, call>>
\* db.commit(); return True, "credited"
McCommit(t) ==
    LET loc == task[t] IN
    /\ loc.pc = "mc_commit"
    /\ Commit(t)
    /\ Goto(t, Reply(loc, "credited"))
    /\ UNCHANGED <<updates, debited, call>>

\* ------------------------------------------------------------------- return
\* The reply is sent (reply_text) and the handler returns: the task is free.
Return(t) ==
    /\ task[t].pc = "reply"
    /\ Goto(t, Idle)
    /\ UNCHANGED <<db, updates, debited, call>>

\* ------------------------------------------------------------- specification
Next ==
    \E t \in Tasks :
        \/ StartCmd(t)
        \/ InfoCmd(t)
        \/ PaidCmd(t)
        \/ CzCmd(t)
        \/ ButtonClick(t)
        \/ EuInsert(t)
        \/ EuUpdate(t)
        \/ EuCommit(t)
        \/ GpSelect(t)
        \/ DpBegin(t)
        \/ DpSelect(t)
        \/ DpRollback(t)
        \/ DpUpdate(t)
        \/ DpCommit(t)
        \/ CzPayLink(t)
        \/ CoInsert(t)
        \/ CoCommit(t)
        \/ CpGetOrder(t)
        \/ CpCheckDeposit(t)
        \/ McBegin(t)
        \/ McSelect(t)
        \/ McRollback(t)
        \/ McUpdateOrder(t)
        \/ McSelectPoints(t)
        \/ McUpdateUser(t)
        \/ McCommit(t)
        \/ Return(t)

Spec == Init /\ [][Next]_vars

\* ------------------------------------------------- concurrent deductions
\* Balances a user can have after one credited top-up: of 3, 5 or 10000.
DebitTopUps == {MinAmount, DecimalOf("5").v, MaxAmount}
\* Some handlers are inside paid_command for user 1, about to call
\* deduct_points_if_enough, each with the cost of its command; the user's
\* balance is that of one credited order, and no other update arrives.
InitDebit ==
    /\ \E b \in DebitTopUps :
        /\ users = [u \in Users |->
                      IF u = 1 THEN [username |-> "", points |-> b] ELSE NoRow]
        /\ orders = [o \in OrderIds |->
                       IF o = 1 THEN PaidOrder(NewOrder(1, b, "g1", "u1"))
                       ELSE NoRow]
    /\ txUsers = users
    /\ txOrders = orders
    /\ lock = 0
    /\ task \in [Tasks -> {Idle} \cup
                   {[Idle EXCEPT !.pc = "dp_begin", !.h = "paid", !.user = 1,
                                 !.amount = COST[cmd]] : cmd \in Commands}]
    /\ updates = MaxUpdates
    /\ debited = [u \in Users |-> 0]
    /\ call = NoCall
NextDebit ==
    \E t \in Tasks :
        \/ DpBegin(t)
        \/ DpSelect(t)
        \/ DpRollback(t)
        \/ DpUpdate(t)
        \/ DpCommit(t)
SpecDebit == InitDebit /\ [][NextDebit]_vars

\* ------------------------------------------------- credits and deductions
\* Amounts of the orders waiting to be credited.
LedgerAmounts == {MinAmount, DecimalOf("5").v}
\* User 1 has one credited order, which is the balance, and the other orders
\* are pending.  Some handlers are inside paid_command for user 1, about to
\* call deduct_points_if_enough; the others are inside handle_check_payment
\* for a pending order, check_deposit having returned a response that
\* normalized as paid, about to call mark_order_paid_and_credit.  Two of them
\* may hold the same order.
InitLedger ==
    /\ \E b \in LedgerAmounts, a \in LedgerAmounts :
        /\ users = [u \in Users |->
                      IF u = 1 THEN [username |-> "", points |-> b] ELSE NoRow]
        /\ orders = [o \in OrderIds |->
                       IF o = 1 THEN PaidOrder(NewOrder(1, b, "g1", "u1"))
                       ELSE NewOrder(1, a, "g1", "u1")]
    /\ txUsers = users
    /\ txOrders = orders
    /\ lock = 0
    /\ task \in [Tasks ->
                   {[Idle EXCEPT !.pc = "dp_begin", !.h = "paid", !.user = 1,
                                 !.amount = COST[cmd]] : cmd \in Commands}
                   \cup
                   {[Idle EXCEPT !.pc = "mc_begin", !.h = "check", !.user = 1,
                                 !.oid = o, !.row = orders[o], !.gw = TRUE,
                                 !.ok = TRUE] : o \in OrderIds \ {1}}]
    /\ updates = MaxUpdates
    /\ debited = [u \in Users |-> 0]
    /\ call = NoCall
NextLedger ==
    \E t \in Tasks :
        \/ DpBegin(t)
        \/ DpSelect(t)
        \/ DpRollback(t)
        \/ DpUpdate(t)
        \/ DpCommit(t)
        \/ McBegin(t)
        \/ McSelect(t)
        \/ McRollback(t)
        \/ McUpdateOrder(t)
        \/ McSelectPoints(t)
        \/ McUpdateUser(t)
        \/ McCommit(t)
SpecLedger == InitLedger /\ [][NextLedger]_vars

\* ------------------------------------------------------ the loop of _post
\* The endpoints the client posts to.
Endpoints == {"payLink", "checkDeposit"}
EndpointResponses(endpoint) ==
    IF endpoint = "payLink" THEN PayResponses ELSE CheckResponses
\* _post is entered: last_resp = None, and the loop is at the first strategy.
\* reqs lists the strategies signed with so far and seen what each request
\* yielded.
PostStart(endpoint) ==
    [fn |-> "post", endpoint |-> endpoint, pc |-> "loop", i |-> 1,
     last_resp |-> NoResp, reqs |-> <<>>, seen |-> <<>>, result |-> NoResp]
\* The only data left untouched by a call of the client.
ClientOnly == UNCHANGED <<db, task, updates, debited>>
\* The loop going on with the strategy it has just used.
PostRequestRetrySame ==
    /\ call.fn = "post"
    /\ call.pc = "loop"
    /\ call.i <= Len(Strategies)
    /\ \E outcome \in EndpointResponses(call.endpoint) \cup {Exc} :
        LET sent == [call EXCEPT !.reqs = Append(@, Strategies[call.i]),
                                 !.seen = Append(@, outcome)]
        IN call' = IF outcome = Exc THEN sent
                   ELSE IF IsAuthFailed(outcome)
                   THEN [sent EXCEPT !.last_resp = outcome]
                   ELSE [sent EXCEPT !.last_resp = outcome, !.pc = "returned",
                                     !.result = outcome]
    /\ ClientOnly
\* One turn of the loop: the data is signed with strategy i and posted.  An
\* exception goes on with the next strategy, and so does a body that is an
\* authentication failure, which is kept as last_resp; any other body is
\* returned.
PostRequest ==
    /\ call.fn = "post"
    /\ call.pc = "loop"
    /\ call.i <= Len(Strategies)
    /\ \E outcome \in EndpointResponses(call.endpoint) \cup {Exc} :
        LET sent == [call EXCEPT !.reqs = Append(@, Strategies[call.i]),
                                 !.seen = Append(@, outcome),
                                 !.i = @ + 1]
        IN call' = IF outcome = Exc THEN sent
                   ELSE IF IsAuthFailed(outcome)
                   THEN [sent EXCEPT !.last_resp = outcome]
                   ELSE [sent EXCEPT !.last_resp = outcome, !.pc = "returned",
                                     !.result = outcome]
    /\ ClientOnly
\* The strategies used up taken as a failure whatever was received.
PostExhaustedRaises ==
    /\ call.fn = "post"
    /\ call.pc = "loop"
    /\ call.i > Len(Strategies)
    /\ call' = [call EXCEPT !.pc = "raised"]
    /\ ClientOnly
\* The strategies are used up: last_resp is returned if there is one,
\* RuntimeError is raised otherwise.
PostExhausted ==
    /\ call.fn = "post"
    /\ call.pc = "loop"
    /\ call.i > Len(Strategies)
    /\ call' = IF call.last_resp # NoResp
               THEN [call EXCEPT !.pc = "returned", !.result = call.last_resp]
               ELSE [call EXCEPT !.pc = "raised"]
    /\ ClientOnly
\* One call of _post for either endpoint, on an empty database with no
\* handler in flight: _post reads and writes nothing but its own locals.
InitPost ==
    /\ users = [u \in Users |-> NoRow]
    /\ orders = [o \in OrderIds |-> NoRow]
    /\ txUsers = users
    /\ txOrders = orders
    /\ lock = 0
    /\ task = [t \in Tasks |-> Idle]
    /\ updates = 0
    /\ debited = [u \in Users |-> 0]
    /\ call \in {PostStart(endpoint) : endpoint \in Endpoints}
NextPost ==
    \/ PostRequest
    \/ PostExhausted
SpecPost == InitPost /\ [][NextPost]_vars
\* Each request ends, with a body or an exception: the client's timeout of 15
\* seconds bounds it, and the event loop resumes the coroutine.
SpecPostFair == SpecPost /\ WF_vars(NextPost)

\* ------------------------------------------- the normalizers of responses
\* Values the gateway may put in "code" and in "status".
CodeValues ==
    {Absent, JInt(10000), JInt(0), JInt(200), JInt(1), JStr("200"), JBool(FALSE)}
StatusValues ==
    {Absent, JStr("success"), JStr("OK"), JStr("1"), JStr("true"), JStr("error"),
     JInt(1), JBool(TRUE)}
\* Values of the nested payment status.
PayStatusValues ==
    {Absent, PyNone, JInt(1), JInt(0), JStr("1"), JStr("paid"), JStr("PAID"),
     JStr("Success"), JStr("true"), JStr("unpaid"), JBool(TRUE)}
\* checkDeposit bodies: every code and status with every "data".
PaidInputs ==
    { Resp([code |-> c, status |-> st, data |-> d]) :
        c \in CodeValues, st \in StatusValues,
        d \in {Absent, JStr("x")}
              \cup {Data([status |-> ps]) : ps \in PayStatusValues}
              \cup {Data([pay_status |-> ps]) : ps \in PayStatusValues}
              \cup {Data([status |-> JInt(0), pay_status |-> JStr("paid")]),
                    Data([status |-> JStr("paid"), pay_status |-> JInt(0)])} }
    \cup {NonDict}
\* A field that is absent, or holds the string naming it (so that the field a
\* result was taken from shows).
Named(name) == {Absent, JStr(name)}
\* payLink bodies: every code and status with and without a pay link, and
\* every combination of the alternate spellings of the order id and of the
\* pay link, in "data" and at the top level.
PayInputs ==
    { Resp([code |-> c, status |-> st, pay_url |-> u]) :
        c \in CodeValues, st \in StatusValues, u \in {Absent, JStr(""), JStr("u")} }
    \cup
    { Resp([code |-> JInt(200), data |-> d, order_id |-> a, orderId |-> b,
            pay_url |-> e, payUrl |-> f]) :
        d \in {Absent, JStr("x")}
              \cup {Data([order_id |-> g, orderId |-> h, pay_url |-> i,
                          payUrl |-> j, url |-> k, link |-> l]) :
                      g \in {PyNone, JStr("d.order_id")},
                      h \in Named("d.orderId"),
                      i \in {JStr(""), JStr("d.pay_url")},
                      j \in Named("d.payUrl"),
                      k \in Named("d.url"),
                      l \in Named("d.link")},
        a \in Named("order_id"), b \in Named("orderId"),
        e \in Named("pay_url"), f \in Named("payUrl") }
    \cup {NonDict}
\* _extract_paid_status or _extract_pay_result is about to be called on a body.
InitExtract ==
    /\ users = [u \in Users |-> NoRow]
    /\ orders = [o \in OrderIds |-> NoRow]
    /\ txUsers = users
    /\ txOrders = orders
    /\ lock = 0
    /\ task = [t \in Tasks |-> Idle]
    /\ updates = 0
    /\ debited = [u \in Users |-> 0]
    /\ call \in {[fn |-> "extract_paid", pc |-> "call", resp |-> r,
                   result |-> FALSE] : r \in PaidInputs}
               \cup
               {[fn |-> "extract_pay", pc |-> "call", resp |-> r,
                 result |-> FALSE] : r \in PayInputs}
ExtractPaid ==
    /\ call.fn = "extract_paid"
    /\ call.pc = "call"
    /\ call' = [call EXCEPT !.pc = "done",
                            !.result = ExtractPaidStatus(call.resp)]
    /\ ClientOnly
ExtractPay ==
    /\ call.fn = "extract_pay"
    /\ call.pc = "call"
    /\ call' = [call EXCEPT !.pc = "done",
                            !.result = ExtractPayResult(call.resp)]
    /\ ClientOnly
NextExtract ==
    \/ ExtractPaid
    \/ ExtractPay
SpecExtract == InitExtract /\ [][NextExtract]_vars

\* ---------------------------------------------------------------- _sign_data
\* The keys of a payload, in sorted order, and the key of the signature.
PayloadKeys == <<"amount", "id", "name">>
\* An empty list.
EmptyList == [t |-> "list", v |-> <<>>]
\* Python's truthiness taken for PHP's: the string "0" is kept.
PhpTruthyPython(value) ==
    CASE value.t = "none" -> FALSE
      [] value.t = "bool" -> value.v
      [] value.t = "int" -> value.v # 0
      [] value.t = "str" -> value.v # ""
      [] OTHER -> value.v # <<>>
\* _php_truthy: None, False, 0, "", "0" and an empty collection are false.
PhpTruthy(value) ==
    CASE value.t = "none" -> FALSE
      [] value.t = "bool" -> value.v
      [] value.t = "int" -> value.v # 0
      [] value.t = "str" -> value.v \notin {"", "0"}
      [] OTHER -> value.v # <<>>
\* quote_plus, on the characters the payloads here hold: a space becomes "+",
\* "+" becomes "%2B".
RECURSIVE QuotePlus(_)
QuotePlus(s) ==
    IF Len(s) = 0 THEN ""
    ELSE (CASE SubSeq(s, 1, 1) = " " -> "+"
            [] SubSeq(s, 1, 1) = "+" -> "%2B"
            [] OTHER -> SubSeq(s, 1, 1)) \o QuotePlus(SubSeq(s, 2, Len(s)))
\* unquote: "%2B" becomes "+"; with plus, unquote_plus: "+" becomes a space
\* first.
RECURSIVE Unquote(_, _)
Unquote(q, plus) ==
    IF Len(q) = 0 THEN ""
    ELSE IF Len(q) >= 3 /\ SubSeq(q, 1, 3) = "%2B"
         THEN "+" \o Unquote(SubSeq(q, 4, Len(q)), plus)
    ELSE IF plus /\ SubSeq(q, 1, 1) = "+"
         THEN " " \o Unquote(SubSeq(q, 2, Len(q)), plus)
    ELSE SubSeq(q, 1, 1) \o Unquote(SubSeq(q, 2, Len(q)), plus)
\* urlencode(sorted_items, doseq=True) from the i-th key on: the pairs
\* key=value joined by "&"; an empty list yields no pair.
RECURSIVE UrlEncode(_, _, _)
UrlEncode(filtered, i, first) ==
    IF i > Len(PayloadKeys) THEN ""
    ELSE LET k == PayloadKeys[i]
             v == filtered[k]
         IN IF v = Absent \/ v = EmptyList
            THEN UrlEncode(filtered, i + 1, first)
            ELSE (IF first THEN "" ELSE "&") \o k \o "=" \o QuotePlus(PyStr(v))
                    \o UrlEncode(filtered, i + 1, FALSE)
\* hashlib.md5(...).hexdigest().upper(): the digest stands for its input.
Md5Upper(src) == "MD5(" \o src \o ")"
\* _sign_data: the payload with the merchant id, filtered, and the signature
\* of the filtered pairs.
SignData(data, id, token, keep_zero, use_urldecode_plus) ==
    LET payload == [data EXCEPT !["id"] = JStr(id)]
        kept(v) == IF keep_zero THEN v # PyNone /\ v # JStr("")
                   ELSE PhpTruthy(v)
        filtered == [k \in DOMAIN payload |->
                       IF payload[k] # Absent /\ kept(payload[k])
                       THEN payload[k] ELSE Absent]
        query == UrlEncode(filtered, 1, TRUE)
        decoded == Unquote(query, use_urldecode_plus)
        sign_src == decoded \o "&token=" \o token
    IN [body |-> filtered, sign |-> Md5Upper(sign_src)]
\* Values a payload may hold under a key.
SignValues ==
    {Absent, PyNone, JStr(""), JStr("0"), JStr("a b"), JStr("a+b"), JInt(0),
     JInt(5), JBool(FALSE), JBool(TRUE), EmptyList}
\* The merchant id and the token of the client, stripped strings.
MerchantIds == {"m1", "0"}
Token == "tk"
\* _sign_data is about to be called with a payload and one of the strategies.
InitSign ==
    /\ users = [u \in Users |-> NoRow]
    /\ orders = [o \in OrderIds |-> NoRow]
    /\ txUsers = users
    /\ txOrders = orders
    /\ lock = 0
    /\ task = [t \in Tasks |-> Idle]
    /\ updates = 0
    /\ debited = [u \in Users |-> 0]
    /\ call \in {[fn |-> "sign", pc |-> "call", data |-> d, id |-> m, st |-> st,
                   result |-> [body |-> d, sign |-> ""]] :
                     d \in [{"amount", "id", "name"} -> SignValues],
                     m \in MerchantIds,
                     st \in {Strategies[i] : i \in 1..Len(Strategies)}}
Sign ==
    /\ call.fn = "sign"
    /\ call.pc = "call"
    /\ call' = [call EXCEPT
                   !.pc = "done",
                   !.result = SignData(call.data, call.id, Token,
                                       call.st.keep_zero,
                                       call.st.use_urldecode_plus)]
    /\ ClientOnly
NextSign == Sign
SpecSign == InitSign /\ [][NextSign]_vars

\* --------------------------------------------------------------- properties
Present(o) == orders[o] # NoRow
\* In this step the committed row of order o goes from not credited to credited.
CreditStep(o) ==
    /\ Present(o)
    /\ orders[o].credited = 0
    /\ orders'[o] # NoRow
    /\ orders'[o].credited = 1
\* In this step task t takes a step.
StepOf(t) == task'[t] # task[t]
\* The committed tables and the write lock are as before the step.
DbUnchanged == users' = users /\ orders' = orders /\ lock' = lock

\* C1: checks of a paid order, sequential or interleaved, credit it once: a
\* committed balance rises only in a step that turns one order of that user
\* from not credited to credited, and then by that order's amount; a credited
\* order stays credited; and every check whose check_deposit response
\* normalized as paid replies "credited" or "already credited", the order
\* being credited by then.
C1_IdempotentCredit ==
    [][ /\ \A u \in Users :
              PointsIn(users', u) > PointsIn(users, u) =>
                  \E o \in OrderIds :
                      /\ CreditStep(o)
                      /\ orders[o].user_id = u
                      /\ PointsIn(users', u) = PointsIn(users, u) + orders[o].amount
                      /\ \A p \in OrderIds \ {o} : ~CreditStep(p)
        /\ \A o \in OrderIds :
              (Present(o) /\ orders[o].credited = 1) =>
                  (orders'[o] # NoRow /\ orders'[o].credited = 1)
        /\ \A t \in Tasks :
              (task'[t].pc = "reply" /\ task'[t].h = "check" /\ task'[t].ok) =>
                  /\ task'[t].out \in {"credited", "already_credited_tx"}
                  /\ orders'[task'[t].oid] # NoRow
                  /\ orders'[task'[t].oid].credited = 1
      ]_vars
\* Two checks both passed the test of credited outside the transaction; one
\* credited the order, the other found it credited inside its transaction.
C1_Witness ==
    \E t \in Tasks :
        /\ task[t].pc = "reply"
        /\ task[t].out = "already_credited_tx"
        /\ task[t].ok
        /\ users[orders[task[t].oid].user_id].points = orders[task[t].oid].amount

\* C2: no balance is negative, committed or inside a transaction, and
\* deduct_points_if_enough writes current - amount only holding the write lock,
\* current being the balance its transaction read and at least amount.
C2_NonNegativeBalance ==
    /\ \A u \in Users : PointsIn(users, u) >= 0 /\ PointsIn(txUsers, u) >= 0
    /\ \A t \in Tasks :
          /\ task[t].pc = "dp_update" =>
                /\ lock = t
                /\ task[t].current = PointsIn(txUsers, task[t].user)
                /\ task[t].current >= task[t].amount
          /\ task[t].pc = "dp_commit" =>
                /\ lock = t
                /\ task[t].current >= task[t].amount
                /\ PointsIn(txUsers, task[t].user)
                     = task[t].current - task[t].amount
\* A deduction from a credited balance is about to commit.
C2_Witness ==
    \E t \in Tasks :
        /\ task[t].pc = "dp_commit"
        /\ txUsers[task[t].user].points < users[task[t].user].points
        /\ txUsers[task[t].user].points >= 0

\* The tasks that run a deduction.
Debitors == {t \in Tasks : task[t].h = "paid"}
\* The balance before the deductions: that of the credited order.
DebitStart == orders[1].amount
\* Exactly two deductions run, each covered by the balance but not both.
OnlyOneCovered ==
    /\ Cardinality(Debitors) = 2
    /\ \A t \in Debitors : task[t].amount <= DebitStart
    /\ \E t \in Debitors, o \in Debitors :
          t # o /\ task[t].amount + task[o].amount > DebitStart
\* C3: of two concurrent deductions that the balance b covers one by one but
\* not together, exactly one returns True, and the balance ends as b minus
\* the amount of that one.
C3_OneOfTwoDebits ==
    (OnlyOneCovered /\ \A t \in Debitors : task[t].pc = "reply") =>
        \E t \in Debitors :
            /\ task[t].ok /\ task[t].out = "maintain"
            /\ \A o \in Debitors \ {t} :
                  ~task[o].ok /\ task[o].out = "insufficient"
            /\ users[1].points = DebitStart - task[t].amount
\* Both deductions have returned, one with True and one with False: the
\* second began its transaction when the first had committed.
C3_Witness ==
    /\ OnlyOneCovered
    /\ \A t \in Debitors : task[t].pc = "reply"
    /\ \E t \in Debitors : task[t].ok
    /\ \E t \in Debitors : ~task[t].ok

\* C4: the credit is one committed unit: the committed credited flag of an
\* order goes from 0 to 1 exactly in a step in which the committed balance of
\* its owner rises by the order's amount and the order becomes paid, and no
\* other step raises a committed balance.
C4_AtomicCredit ==
    [][ /\ \A o \in OrderIds :
              CreditStep(o) =>
                  /\ orders'[o].status = 1
                  /\ users[orders[o].user_id] # NoRow
                  /\ users'[orders[o].user_id].points
                       = users[orders[o].user_id].points + orders[o].amount
        /\ \A u \in Users :
              PointsIn(users', u) > PointsIn(users, u) =>
                  \E o \in OrderIds : CreditStep(o) /\ orders[o].user_id = u
      ]_vars
\* An order is credited and paid, and its owner holds its amount.
C4_Witness ==
    \E o \in OrderIds :
        /\ Present(o)
        /\ orders[o].credited = 1
        /\ orders[o].status = 1
        /\ users[orders[o].user_id].points = orders[o].amount
        /\ lock = 0

\* C5: every credited order is paid, in the committed table and in the view
\* of a transaction.
C5_CreditedIsPaid ==
    \A o \in OrderIds :
        /\ (orders[o] # NoRow /\ orders[o].credited = 1) => orders[o].status = 1
        /\ (txOrders[o] # NoRow /\ txOrders[o].credited = 1) =>
              txOrders[o].status = 1
\* A transaction has marked an order credited and not yet committed.
C5_Witness ==
    \E o \in OrderIds :
        /\ txOrders[o] # NoRow
        /\ txOrders[o].credited = 1
        /\ Present(o)
        /\ orders[o].credited = 0

\* C6: a committed balance rises only by the credit of an order of that
\* user, and an order is credited only by a check of its owner whose
\* check_deposit call returned a response that normalized as paid: the call
\* did not raise, and the response was not an authentication failure.
C6_CreditOnlyWhenVerified ==
    [][ /\ \A u \in Users :
              PointsIn(users', u) > PointsIn(users, u) =>
                  \E o \in OrderIds : CreditStep(o) /\ orders[o].user_id = u
        /\ \A o \in OrderIds :
              CreditStep(o) =>
                  \E t \in Tasks :
                      /\ StepOf(t)
                      /\ task[t].pc = "mc_commit"
                      /\ task[t].oid = o
                      /\ task[t].user = orders[o].user_id
                      /\ task[t].gw
                      /\ task[t].ok
                      /\ ~task[t].raised
                      /\ ~task[t].auth
      ]_vars

\* C7: a check by a user who is not the order's owner replies "not yours"
\* as its next step, without a gateway call, and neither that step nor the
\* reply changes a table or takes the lock, whatever the state of the order.
C7_OwnershipMismatch ==
    [][ \A t \in Tasks :
          /\ ( /\ StepOf(t)
               /\ task[t].pc = "cp_get"
               /\ Present(task[t].oid)
               /\ orders[task[t].oid].user_id # task[t].user ) =>
                  /\ task'[t].pc = "reply"
                  /\ task'[t].out = "not_yours"
                  /\ ~task'[t].gw
                  /\ DbUnchanged
          /\ ( /\ StepOf(t)
               /\ task[t].pc = "reply"
               /\ task[t].out = "not_yours" ) =>
                  /\ task'[t].pc = "idle"
                  /\ DbUnchanged
      ]_vars
\* A user who is not the owner has checked an order that is credited.
C7_Witness ==
    \E t \in Tasks :
        /\ task[t].pc = "reply"
        /\ task[t].out = "not_yours"
        /\ orders[task[t].oid].credited = 1
        /\ ~task[t].gw

\* C8: cz replies "too low" to an amount below 3 and "too high" to one above
\* 10000, without a gateway call and without an order id; with an amount from
\* 3 to 10000, both included, it calls the gateway, and when the response
\* normalizes as success it replies with the order, whose row is in the table
\* with that amount.
C8_AmountBounds ==
    \A t \in Tasks :
        (task[t].h = "cz" /\ task[t].amount # 0) =>
            /\ task[t].amount < MinAmount =>
                  /\ task[t].pc = "reply" /\ task[t].out = "too_low"
                  /\ ~task[t].gw /\ task[t].oid = 0
            /\ task[t].amount > MaxAmount =>
                  /\ task[t].pc = "reply" /\ task[t].out = "too_high"
                  /\ ~task[t].gw /\ task[t].oid = 0
            /\ (task[t].amount >= MinAmount /\ task[t].amount <= MaxAmount) =>
                  /\ task[t].pc \in {"cz_paylink", "co_insert", "co_commit", "reply"}
                  /\ task[t].pc # "cz_paylink" => task[t].gw
                  /\ (task[t].pc = "reply" /\ task[t].ok) =>
                        /\ task[t].out = "order_created"
                        /\ Present(task[t].oid)
                        /\ orders[task[t].oid].amount = task[t].amount
\* An order of exactly 10000 is created, and an amount of 10000.01 is refused.
C8_Witness ==
    \E t \in Tasks, o \in Tasks :
        /\ task[t].pc = "reply" /\ task[t].out = "order_created"
        /\ task[t].amount = MaxAmount
        /\ orders[task[t].oid].amount = MaxAmount
        /\ task[o].pc = "reply" /\ task[o].out = "too_high"
        /\ task[o].amount = MaxAmount + 1

\* C9: a cz whose gateway call failed persists nothing: when pay_link raised,
\* or returned an authentication failure (all strategies used up), or a
\* response that does not normalize as success, no row with its unique_id is
\* in the orders table.
C9_FailedCreatePersistsNothing ==
    \A t \in Tasks :
        (task[t].h = "cz" /\ task[t].gw
            /\ (task[t].raised \/ task[t].auth \/ ~task[t].ok)) =>
                orders[task[t].oid] = NoRow

\* C10: a check by the owner of an order that is credited replies "already
\* credited" as its next step, without a gateway call, and neither that step
\* nor the reply changes a table or takes the lock.
C10_AlreadyCredited ==
    [][ \A t \in Tasks :
          /\ ( /\ StepOf(t)
               /\ task[t].pc = "cp_get"
               /\ Present(task[t].oid)
               /\ orders[task[t].oid].user_id = task[t].user
               /\ orders[task[t].oid].credited = 1 ) =>
                  /\ task'[t].pc = "reply"
                  /\ task'[t].out = "already_credited"
                  /\ ~task'[t].gw
                  /\ DbUnchanged
          /\ ( /\ StepOf(t)
               /\ task[t].pc = "reply"
               /\ task[t].out = "already_credited" ) =>
                  /\ task'[t].pc = "idle"
                  /\ DbUnchanged
      ]_vars
\* The owner has checked a credited order again; the balance is the amount
\* of the order.
C10_Witness ==
    \E t \in Tasks :
        /\ task[t].pc = "reply"
        /\ task[t].h = "check"
        /\ task[t].out = "already_credited"
        /\ users[orders[task[t].oid].user_id].points = orders[task[t].oid].amount

\* C11: a check by the owner of a pending order whose check_deposit call raised
\* replies "query failed", and one whose response did not normalize as paid
\* replies "not paid"; neither the gateway step nor the reply changes a table
\* or takes the lock, so the order stays pending and can be checked again.
C11_FailedCheckChangesNothing ==
    [][ \A t \in Tasks :
          /\ ( /\ StepOf(t)
               /\ task[t].pc = "cp_check"
               /\ (task'[t].raised \/ ~task'[t].ok) ) =>
                  /\ task'[t].pc = "reply"
                  /\ task'[t].out = IF task'[t].raised THEN "query_failed"
                                    ELSE "not_paid"
                  /\ DbUnchanged
          /\ ( /\ StepOf(t)
               /\ task[t].pc = "reply"
               /\ task[t].out \in {"query_failed", "not_paid"} ) =>
                  /\ task'[t].pc = "idle"
                  /\ DbUnchanged
      ]_vars
\* One check of a pending order was answered "not paid" and another "query
\* failed"; the order is still pending and its owner's balance is 0.
C11_Witness ==
    \E t \in Tasks, o \in Tasks :
        /\ task[t].pc = "reply" /\ task[t].out = "not_paid"
        /\ task[o].pc = "reply" /\ task[o].out = "query_failed"
        /\ task[o].oid = task[t].oid
        /\ Present(task[t].oid)
        /\ orders[task[t].oid].status = 0
        /\ orders[task[t].oid].credited = 0
        /\ users[orders[task[t].oid].user_id].points = 0

\* The requests of the call that yielded a body, and those whose body is not
\* an authentication failure.
Answered == {k \in 1..Len(call.seen) : call.seen[k] # Exc}
Authenticated == {k \in Answered : ~IsAuthFailed(call.seen[k])}
Least(S) == CHOOSE k \in S : \A j \in S : k <= j
Greatest(S) == CHOOSE k \in S : \A j \in S : j <= k
PostDone == call.fn = "post" /\ call.pc \in {"returned", "raised"}

\* C12: _post returns the body of the first request, in the order of the
\* strategies, that is not an authentication failure, and sends no request
\* after it; when the strategies are used up it returns the last body
\* received if any request yielded one (an authentication failure, and also
\* when later requests raised), and raises only when no request yielded a
\* body; the one-step Post used by the handlers gives the same result.
C12_PostResult ==
    PostDone =>
        /\ IF Authenticated # {}
           THEN /\ call.pc = "returned"
                /\ call.result = call.seen[Least(Authenticated)]
                /\ Len(call.seen) = Least(Authenticated)
           ELSE /\ Len(call.seen) = Len(Strategies)
                /\ IF Answered # {}
                   THEN /\ call.pc = "returned"
                        /\ call.result = call.seen[Greatest(Answered)]
                   ELSE call.pc = "raised"
        /\ LET outcomes == [k \in 1..Len(Strategies) |->
                               IF k <= Len(call.seen) THEN call.seen[k] ELSE Exc]
           IN /\ Post(outcomes).raised = (call.pc = "raised")
              /\ Post(outcomes).resp = call.result
\* The second request was answered with an authentication failure, the third
\* and the fourth raised, and the body of the second is returned.
C12_Witness ==
    /\ PostDone
    /\ call.pc = "returned"
    /\ Len(call.seen) = 4
    /\ call.seen[1] = Exc
    /\ IsAuthFailed(call.seen[2])
    /\ call.seen[3] = Exc
    /\ call.seen[4] = Exc
    /\ call.result = call.seen[2]

\* The order of the signing strategies, as (keep_zero, use_urldecode_plus).
FixedOrder ==
    << <<FALSE, TRUE>>, <<TRUE, TRUE>>, <<FALSE, FALSE>>, <<TRUE, FALSE>> >>
\* C13: a call of _post sends at most 4 requests, the k-th signed with the
\* k-th strategy of the fixed order (so none is used twice), and it ends, by
\* returning a body or by raising, whatever the requests yield.
C13_BoundedFallback ==
    /\ [](call.fn = "post" =>
            /\ Len(call.reqs) <= 4
            /\ \A k \in 1..Len(call.reqs) :
                  <<call.reqs[k].keep_zero, call.reqs[k].use_urldecode_plus>>
                      = FixedOrder[k])
    /\ <>PostDone
\* All four strategies were used, through exceptions and authentication
\* failures, and the call raised or returned.
C13_Witness ==
    /\ PostDone
    /\ Len(call.reqs) = 4
    /\ \E k \in 1..4 : call.seen[k] = Exc
    /\ \E k \in 1..4 : IsAuthFailed(call.seen[k])
    /\ call.seen[4] # Exc

\* C14: in the committed orders table a row appears unpaid and not credited;
\* a row never disappears; the only change of a row is the one from (status
\* 0, credited 0) to (status 1, credited 1), which sets paid_at and leaves
\* the owner, the amount, the coin, the gateway order id and the pay link as
\* they were; a credited row never changes again.
C14_OrderLifecycle ==
    [][ \A o \in OrderIds :
          /\ (~Present(o) /\ orders'[o] # NoRow) =>
                /\ orders'[o].status = 0
                /\ orders'[o].credited = 0
          /\ Present(o) => orders'[o] # NoRow
          /\ (Present(o) /\ orders'[o] # orders[o]) =>
                /\ orders[o].status = 0
                /\ orders[o].credited = 0
                /\ orders'[o] = [orders[o] EXCEPT !.status = 1, !.credited = 1,
                                                  !.paid_at = orders'[o].paid_at]
          /\ (Present(o) /\ orders[o].credited = 1) => orders'[o] = orders[o]
      ]_vars
\* One order has been credited, a second one was created after that and is
\* pending.
C14_Witness ==
    \E o \in OrderIds, p \in OrderIds :
        /\ Present(o) /\ orders[o].credited = 1 /\ orders[o].status = 1
        /\ orders[o].paid_at # "NULL"
        /\ Present(p) /\ orders[p].credited = 0 /\ orders[p].status = 0
        /\ \E u \in Users : users[u] # NoRow /\ users[u].points = orders[o].amount

\* The positions inside ensure_user.
EnsureUserPcs == {"eu_insert", "eu_update", "eu_commit"}
\* C15: a step of ensure_user never changes the balance of a user that has a
\* row, in the committed table or in the view of its transaction, and never
\* changes an order or another user's row; its commit gives an absent user a
\* row with balance 0; and when the row already carries the username of this
\* call (as after a first call), the commit leaves the users table as it was.
C15_EnsureUserKeepsBalance ==
    [][ \A t \in Tasks :
          (StepOf(t) /\ task[t].pc \in EnsureUserPcs) =>
              /\ orders' = orders
              /\ txOrders' = txOrders
              /\ \A u \in Users :
                    /\ users[u] # NoRow =>
                          /\ users'[u] # NoRow
                          /\ users'[u].points = users[u].points
                    /\ txUsers[u] # NoRow =>
                          /\ txUsers'[u] # NoRow
                          /\ txUsers'[u].points = txUsers[u].points
                    /\ u # task[t].user => users'[u] = users[u]
                    /\ (users[u] = NoRow /\ users'[u] # NoRow) =>
                          users'[u].points = 0
              /\ task[t].pc = "eu_commit" =>
                    /\ users'[task[t].user] # NoRow
                    /\ ( /\ users[task[t].user] # NoRow
                         /\ users[task[t].user].username
                              = txUsers[task[t].user].username ) =>
                            users' = users
      ]_vars
\* ensure_user has run for a user whose balance is that of a credited order,
\* and changed the username of the row.
C15_Witness ==
    \E t \in Tasks :
        /\ task[t].pc = "reply"
        /\ task[t].out = "start_text"
        /\ \E u \in Users, o \in OrderIds :
              /\ users[u] # NoRow
              /\ users[u].username = "neo"
              /\ Present(o)
              /\ orders[o].user_id = u
              /\ orders[o].credited = 1
              /\ users[u].points = orders[o].amount

\* The sum of the amounts of the orders in S.
RECURSIVE AmountSum(_)
AmountSum(S) ==
    IF S = {} THEN 0
    ELSE LET o == CHOOSE p \in S : TRUE
         IN orders[o].amount + AmountSum(S \ {o})
\* The credited orders of user u in the committed table.
CreditedOf(u) ==
    {o \in OrderIds : Present(o) /\ orders[o].user_id = u /\ orders[o].credited = 1}
CodeRecognized(resp) ==
    resp.v["code"] \in {JInt(10000), JInt(0), JInt(200), JBool(FALSE)}
\* The status, as a lower-cased string, is one of the statuses a creation
\* recognizes.
StatusRecognized(resp) ==
    Lower(PyStr(IF resp.v["status"] = Absent THEN JStr("") ELSE resp.v["status"]))
        \in {"success", "ok", "1", "true"}
\* The nested payment status: "status" of the data object if it holds one,
\* else its "pay_status", else 0.
PaymentStatus(resp) ==
    IF resp.v["data"].t # "dict" THEN JInt(0)
    ELSE IF resp.v["data"].v["status"] # Absent THEN resp.v["data"].v["status"]
    ELSE IF resp.v["data"].v["pay_status"] # Absent
         THEN resp.v["data"].v["pay_status"]
    ELSE JInt(0)
\* C17: _extract_paid_status reports paid exactly when the body is an object
\* with a recognized code or a recognized status (the set a creation
\* recognizes) and its nested payment status, as a string compared without
\* regard to case, is one of 1, true, paid, success.
C17_PaidStatus ==
    (call.fn = "extract_paid" /\ call.pc = "done") =>
        call.result =
            ( /\ call.resp.t = "dict"
              /\ (CodeRecognized(call.resp) \/ StatusRecognized(call.resp))
              /\ Lower(PyStr(PaymentStatus(call.resp)))
                    \in {"1", "true", "paid", "success"} )

\* The spellings of the gateway order id and of the pay link, in the order
\* they are tried: those of the data object, then those of the top level.
IdFields ==
    << <<"data", "order_id">>, <<"data", "orderId">>,
       <<"top", "order_id">>, <<"top", "orderId">> >>
UrlFields ==
    << <<"data", "pay_url">>, <<"data", "payUrl">>, <<"data", "url">>,
       <<"data", "link">>, <<"top", "pay_url">>, <<"top", "payUrl">> >>
\* The value of field f of a body, Absent when the body has no data object.
FieldOf(resp, f) ==
    IF f[1] = "top" THEN resp.v[f[2]]
    ELSE IF resp.v["data"].t = "dict" THEN resp.v["data"].v[f[2]]
    ELSE Absent
NonEmpty(v) == v.t = "str" /\ v.v # ""
\* The first non-empty field of the list, "" when there is none.
FirstNonEmpty(resp, fields) ==
    LET S == {k \in 1..Len(fields) : NonEmpty(FieldOf(resp, fields[k]))}
    IN IF S = {} THEN "" ELSE FieldOf(resp, fields[Least(S)]).v
\* C18: _extract_pay_result takes the gateway order id and the pay link each
\* from the first non-empty field in the fixed order, the data object before
\* the top level, and reports success exactly when the pay link is not empty
\* and the code is one of 10000, 0, 200 or the lower-cased status is one of
\* success, ok, 1, true, with or without an order id; a body that is not an
\* object yields (False, "", "").
C18_PayResult ==
    (call.fn = "extract_pay" /\ call.pc = "done") =>
        IF call.resp.t # "dict"
        THEN call.result = [success |-> FALSE, order_id |-> "", pay_url |-> ""]
        ELSE /\ call.result.order_id = FirstNonEmpty(call.resp, IdFields)
             /\ call.result.pay_url = FirstNonEmpty(call.resp, UrlFields)
             /\ call.result.success =
                    ( /\ call.result.pay_url # ""
                      /\ (CodeRecognized(call.resp)
                            \/ StatusRecognized(call.resp)) )
\* A success without an order id, its pay link taken from "payUrl" of the
\* data object although the top level holds one too and "pay_url" of the
\* data object is empty.
C18_Witness ==
    /\ call.fn = "extract_pay"
    /\ call.pc = "done"
    /\ call.result.success
    /\ call.result.order_id = ""
    /\ call.result.pay_url = "d.payUrl"
    /\ call.resp.v["pay_url"] = JStr("pay_url")
    /\ call.resp.v["data"].v["pay_url"] = JStr("")

\* The values the filter drops: None and "" always; with keep_zero false also
\* the string "0", the number zero (Python's False is the number 0) and an
\* empty collection.
Dropped(v, keep_zero) ==
    \/ v \in {Absent, PyNone, JStr("")}
    \/ ~keep_zero /\ v \in {JStr("0"), JInt(0), JBool(FALSE), EmptyList}
\* C19: _sign_data puts the merchant id under "id", whatever the caller put
\* there, and then filters: the body holds a key of the payload exactly when
\* its value is not dropped, with the value unchanged, and it holds a
\* signature.
C19_SignerFilter ==
    (call.fn = "sign" /\ call.pc = "done") =>
        LET payload == [k \in DOMAIN call.data |->
                          IF k = "id" THEN JStr(call.id) ELSE call.data[k]]
        IN /\ DOMAIN call.result.body = DOMAIN call.data
           /\ \A k \in DOMAIN call.data :
                 call.result.body[k] =
                     IF Dropped(payload[k], call.st.keep_zero) THEN Absent
                     ELSE payload[k]
           /\ call.result.sign # ""
\* With keep_zero false an amount "0" and a name 0 were dropped, and the id
\* the caller supplied was replaced by the merchant id.
C19_Witness ==
    /\ call.fn = "sign"
    /\ call.pc = "done"
    /\ ~call.st.keep_zero
    /\ call.data["amount"] = JStr("0")
    /\ call.data["name"] = JInt(0)
    /\ call.data["id"] = JStr("a b")
    /\ call.result.body["amount"] = Absent
    /\ call.result.body["name"] = Absent
    /\ call.result.body["id"] = JStr("m1")

\* C20: the owner of every order, committed or written in an open
\* transaction, has a row in the users table; and the UPDATE of the balance in
\* mark_order_paid_and_credit finds the owner's row, so the commit that marks
\* an order credited raises a balance.
C20_OwnerExists ==
    /\ \A o \in OrderIds :
          /\ Present(o) => users[orders[o].user_id] # NoRow
          /\ txOrders[o] # NoRow => txUsers[txOrders[o].user_id] # NoRow
    /\ \A t \in Tasks :
          task[t].pc \in {"mc_update_user", "mc_commit"} =>
              txUsers[task[t].row.user_id] # NoRow
\* A credit is about to commit: the order is marked in the transaction and
\* the balance of its owner, who has a row, is raised by the amount.
C20_Witness ==
    \E t \in Tasks :
        /\ task[t].pc = "mc_commit"
        /\ txOrders[task[t].oid].credited = 1
        /\ orders[task[t].oid].credited = 0
        /\ users[task[t].row.user_id] # NoRow
        /\ txUsers[task[t].row.user_id].points
              = users[task[t].row.user_id].points + task[t].row.amount

====
